---- MODULE Spec2Model ----
(***************************************************************************)
(* Model of src/theme.rs: the SunriseSunset day window and the watch_theme *)
(* event loop that switches the theme between dark and light.              *)
(*                                                                         *)
(* Time is discrete.  One calendar day is DayLen ticks.  The wall clock    *)
(* (SystemTime / DateTime<Local>) and the monotonic clock (Instant) are    *)
(* two variables that advance together; the local time zone is UTC.        *)
(***************************************************************************)
EXTENDS Integers, Sequences, FiniteSets, TLC

\* ------------------------------------------------------------------ bounds
\* Ticks in one calendar day: Days::new(1).
DayLen == 8
\* The wall clock stops advancing here.
MaxTime == 26
\* Last calendar day DateTime can represent: checked_add_days fails past it.
MaxDay == 5

\* The loop starts at midnight of day 1; the monotonic clock starts at 0.
StartWall == DayLen
\* Largest magnitude an Instant can hold: checked_add / checked_sub fail past it.
InstantLimit == 100 * DayLen

\* Coordinates a location fix can resolve to.
\*   A, B : ordinary places, B has the later sunrise
\*   P    : the astronomical function is in range on day 1 only
\*   X    : the astronomical function is out of range on every day
Locs == {"A", "B", "P", "X"}

\* ------------------------------------------------------------- result types
Ok(v) == [ok |-> TRUE, val |-> v, err |-> ""]
Err(e) == [ok |-> FALSE, val |-> 0, err |-> e]

\* Option<SunriseSunset>
NoWindow == [some |-> FALSE, last_update |-> 0, sunrise |-> 0, sunset |-> 0, loc |-> "-"]
\* Option<Instant>
NoDeadline == [some |-> FALSE, at |-> 0]
SomeDeadline(i) == [some |-> TRUE, at |-> i]

\* ------------------------------------------------------------ pure helpers
\* DateTime::date_naive / year, month, day: the calendar day of a wall-clock time.
date_naive(t) == t \div DayLen

\* sunrise::sunrise_sunset(lat, long, year, month, day): epoch times (i64) of
\* that day's sunrise and sunset.  An out-of-range answer is negative.
sunrise_sunset_fn(loc, day) ==
    CASE loc = "A" -> <<day * DayLen + 2, day * DayLen + 6>>
      [] loc = "B" -> <<day * DayLen + 4, day * DayLen + 6>>
      [] loc = "P" -> IF day <= 1 THEN <<day * DayLen + 2, day * DayLen + 6>>
                                  ELSE <<-1, -1>>
      [] OTHER     -> <<-1, -1>>

\* Instant::checked_add / checked_sub
checked_add(i, d) == IF i + d > InstantLimit THEN Err("ClockAnchorFailure") ELSE Ok(i + d)
checked_sub(i, d) == IF i - d < -InstantLimit THEN Err("ClockAnchorFailure") ELSE Ok(i - d)

\* The closure st_to_instant of SunriseSunset::new, with instant_now captured.
st_to_instant(instant_now, now, st) ==
    IF st > now THEN checked_add(instant_now, st - now)
                ELSE checked_sub(instant_now, now - st)

\* SunriseSunset::new(lat, long, now), called when the monotonic clock reads
\* instant_now.  `now` is the DateTime argument, not necessarily the wall clock.
New(loc, now, instant_now) ==
    LET ss == sunrise_sunset_fn(loc, date_naive(now))
    IN  IF ss[1] < 0 \/ ss[2] < 0 THEN Err("NegativeOrOverflow")
        ELSE LET sr == st_to_instant(instant_now, now, ss[1])
                 st == st_to_instant(instant_now, now, ss[2])
             IN  IF ~sr.ok THEN Err(sr.err)
                 ELSE IF ~st.ok THEN Err(st.err)
                 ELSE Ok([some |-> TRUE, last_update |-> now,
                          sunrise |-> sr.val, sunset |-> st.val, loc |-> loc])

\* is_dark with the sunset instant itself still counted as daylight.
is_dark_sunset_exclusive(s, wall_now, mono_now) ==
    IF date_naive(s.last_update) # date_naive(wall_now)
    THEN Err("StaleWindow")
    ELSE Ok(mono_now < s.sunrise \/ mono_now > s.sunset)

\* is_dark without the staleness gate: it classifies whatever the date is.
is_dark_no_gate(s, wall_now, mono_now) ==
    Ok(mono_now < s.sunrise \/ mono_now >= s.sunset)

\* SunriseSunset::is_dark(&self), read when the clocks are (wall_now, mono_now).
is_dark_fn(s, wall_now, mono_now) ==
    IF date_naive(s.last_update) # date_naive(wall_now)
    THEN Err("StaleWindow")
    ELSE Ok(mono_now < s.sunrise \/ mono_now >= s.sunset)

\* SunriseSunset::next(&self): checked_duration_since(now).is_some() is
\* "deadline >= now".
next_fn(s, mono_now) ==
    IF s.sunrise >= mono_now THEN Ok(s.sunrise)
    ELSE IF s.sunset >= mono_now THEN Ok(s.sunset)
    ELSE Err("AllDeadlinesElapsed")

\* DateTime::checked_add_days(Days::new(1))
checked_add_days(t) ==
    IF date_naive(t + DayLen) > MaxDay THEN Err("DateOverflow") ELSE Ok(t + DayLen)

\* update_next that stores tomorrow's date in the window before it tries to
\* construct the new one, so a failed construction leaves a changed window.
update_next_date_first(s, mono_now) ==
    LET n == next_fn(s, mono_now)
    IN  IF n.ok THEN [window |-> s, res |-> n]
        ELSE LET tomorrow == checked_add_days(s.last_update)
             IN  IF ~tomorrow.ok THEN [window |-> s, res |-> Err(tomorrow.err)]
                 ELSE LET fresh == New(s.loc, tomorrow.val, mono_now)
                      IN  IF ~fresh.ok
                          THEN [window |-> [s EXCEPT !.last_update = tomorrow.val],
                                res |-> Err(fresh.err)]
                          ELSE [window |-> fresh.val,
                                res |-> next_fn(fresh.val, mono_now)]

\* SunriseSunset::update_next(&mut self): the window it leaves behind and the
\* result it returns.
update_next(s, mono_now) ==
    LET n == next_fn(s, mono_now)
    IN  IF n.ok THEN [window |-> s, res |-> n]
        ELSE LET tomorrow == checked_add_days(s.last_update)
             IN  IF ~tomorrow.ok THEN [window |-> s, res |-> Err(tomorrow.err)]
                 ELSE LET fresh == New(s.loc, tomorrow.val, mono_now)
                      IN  IF ~fresh.ok THEN [window |-> s, res |-> Err(fresh.err)]
                          ELSE [window |-> fresh.val,
                                res |-> next_fn(fresh.val, mono_now)]

\* The same query with a default of "dark" when there is no window.
is_dark_or_default(s, wall_now, mono_now) ==
    IF ~s.some THEN Ok(TRUE) ELSE is_dark_fn(s, wall_now, mono_now)

\* sunrise_sunset.as_ref().and_then(|s| s.is_dark().ok())
is_dark_opt(s, wall_now, mono_now) ==
    IF ~s.some THEN Err("NoWindow") ELSE is_dark_fn(s, wall_now, mono_now)

\* The astronomical function is in range for loc on the day of wall time t.
AstroValid(loc, t) ==
    LET ss == sunrise_sunset_fn(loc, date_naive(t)) IN ss[1] >= 0 /\ ss[2] >= 0

\* The real sunrise / sunset (wall-clock times) of the calendar day of t at loc.
RealSunrise(loc, t) == sunrise_sunset_fn(loc, date_naive(t))[1]
RealSunset(loc, t) == sunrise_sunset_fn(loc, date_naive(t))[2]

\* It is really night at loc at wall time t: strictly before that day's
\* sunrise, or at or after that day's sunset.
RealDark(loc, t) == t < RealSunrise(loc, t) \/ t >= RealSunset(loc, t)

\* ------------------------------------------------------------------- state
VARIABLES
    wall,            \* wall clock: Local::now() / SystemTime
    mono,            \* monotonic clock: Instant::now()
    sunrise_sunset,  \* the loop's Option<SunriseSunset>
    auto_switch,     \* theme_mode.auto_switch
    is_dark,         \* theme_mode.is_dark
    sunset_deadline, \* the Option<Instant> computed at the top of the iteration
    sleep_auto,      \* theme_mode.auto_switch as captured by the sleep future
    pc,              \* "refresh" (top of the loop), "select", "done"
    outcome,         \* "running", or why watch_theme returned / panicked
    event,           \* what the last step of the loop did
    cfg_last,        \* auto_switch as left by the latest config change
    toggled_off,     \* the latest change of auto_switch was a config change to off
    owed             \* the switch the loop owes since the latest real sunrise / sunset

vars == <<wall, mono, sunrise_sunset, auto_switch, is_dark, sunset_deadline,
          sleep_auto, pc, outcome, event, cfg_last, toggled_off, owed>>

\* The record of one step: which branch ran, the set_is_dark calls it made,
\* and what the branch saw before it ran.
Event(kind, applied, loc, new_ok, prev, prev_auto) ==
    [kind |-> kind, applied |-> applied, loc |-> loc, new_ok |-> new_ok,
     prev |-> prev, prev_auto |-> prev_auto]

Idle == Event("idle", <<>>, "-", FALSE, NoWindow, FALSE)

\* ------------------------------------------------------------ bookkeeping
\* theme_mode.set_is_dark(&helper, is_dark): `calls` holds the value passed, or
\* is empty when the branch made no call; the write succeeds iff ok.  `base` is
\* theme_mode.is_dark before the call.
set_is_dark(calls, ok, base) ==
    is_dark' = IF calls # <<>> /\ ok THEN calls[1] ELSE base

\* owed after a step of the loop.  The loop is undisturbed while it runs with
\* auto-switch on and a window, and sees no config change, no location update
\* and no failed apply; a disturbance cancels what is owed, the owed apply pays
\* it.
Owed(running, auto, window, disturbed, failed, calls) ==
    owed' =
        IF ~running \/ ~auto \/ ~window.some \/ disturbed \/ failed THEN "none"
        ELSE IF calls = <<FALSE>> /\ owed = "light" THEN "none"
        ELSE IF calls = <<TRUE>> /\ owed = "dark" THEN "none"
        ELSE owed

\* owed after the wall clock moved to t: a real sunrise makes apply(false)
\* owed, a real sunset makes apply(true) owed, and a switch still owed when
\* the opposite one falls due is missed.
OwedAt(t) ==
    owed' =
        IF ~auto_switch \/ ~sunrise_sunset.some THEN "none"
        ELSE IF ~AstroValid(sunrise_sunset.loc, t) THEN "none"
        ELSE IF t = RealSunrise(sunrise_sunset.loc, t)
             THEN (IF owed \in {"dark", "missed"} THEN "missed" ELSE "light")
        ELSE IF t = RealSunset(sunrise_sunset.loc, t)
             THEN (IF owed \in {"light", "missed"} THEN "missed" ELSE "dark")
        ELSE owed

\* A sleep future that forgets the auto_switch test and only waits for the
\* deadline.
SleepReadyIgnoringAutoSwitch ==
    /\ sunset_deadline.some
    /\ mono >= sunset_deadline.at

\* The sleep future is ready: auto_switch (as captured) is on, a deadline is
\* known and tokio::time::sleep_until(deadline) has completed.
SleepReady ==
    /\ sleep_auto
    /\ sunset_deadline.some
    /\ mono >= sunset_deadline.at

\* The sleep future is overdue: the runtime wakes it before more time passes.
SleepOverdue ==
    /\ sleep_auto
    /\ sunset_deadline.some
    /\ mono > sunset_deadline.at

\* ------------------------------------------------------------------ actions
Init ==
    /\ wall = StartWall
    /\ mono = 0
    /\ sunrise_sunset = NoWindow
    /\ auto_switch \in BOOLEAN
    /\ is_dark \in BOOLEAN
    /\ sunset_deadline = NoDeadline
    /\ sleep_auto = FALSE
    /\ pc = "refresh"
    /\ outcome = "running"
    /\ event = Idle
    /\ cfg_last = auto_switch
    /\ toggled_off = FALSE
    /\ owed = "none"

\* Time passes while the loop waits in select!.
Tick ==
    /\ pc = "select"
    /\ wall < MaxTime
    /\ ~SleepOverdue
    /\ wall' = wall + 1
    /\ mono' = mono + 1
    /\ event' = Idle
    /\ OwedAt(wall + 1)
    /\ UNCHANGED <<sunrise_sunset, auto_switch, is_dark, sunset_deadline,
                   sleep_auto, pc, outcome, cfg_last, toggled_off>>

\* Top of the loop: refresh the deadline, build the two futures.
Refresh ==
    /\ pc = "refresh"
    /\ LET r == IF sunrise_sunset.some
                THEN update_next(sunrise_sunset, mono)
                ELSE [window |-> NoWindow, res |-> Ok(0)]
       IN  /\ sunrise_sunset' = r.window
           /\ IF r.res.ok
              THEN /\ sunset_deadline' = IF sunrise_sunset.some
                                         THEN SomeDeadline(r.res.val)
                                         ELSE NoDeadline
                   /\ sleep_auto' = auto_switch
                   /\ pc' = "select"
                   /\ outcome' = outcome
              ELSE /\ pc' = "done"
                   /\ outcome' = r.res.err
                   /\ UNCHANGED <<sunset_deadline, sleep_auto>>
           /\ Owed(r.res.ok, auto_switch, r.window, FALSE, FALSE, <<>>)
    /\ event' = Event("refresh", <<>>, "-", FALSE, sunrise_sunset, auto_switch)
    /\ UNCHANGED <<wall, mono, auto_switch, is_dark, cfg_last, toggled_off>>

\* A config branch that sets the theme whenever auto-switch is off after the
\* change, not only when the change turned it off.
ConfigChangeAppliesWheneverOff(key, v, ok) ==
    /\ pc = "select"
    /\ LET new_auto == IF key = "auto_switch" THEN v ELSE auto_switch
           new_dark == IF key = "is_dark" THEN v ELSE is_dark
           d == is_dark_opt(sunrise_sunset, wall, mono)
           calls == IF ~new_auto /\ d.ok THEN <<d.val>> ELSE <<>>
       IN  /\ auto_switch' = new_auto
           /\ cfg_last' = new_auto
           /\ toggled_off' = IF new_auto THEN FALSE
                             ELSE IF auto_switch THEN TRUE ELSE toggled_off
           /\ set_is_dark(calls, ok, new_dark)
           /\ event' = Event("config", calls, "-", FALSE, sunrise_sunset, auto_switch)
           /\ pc' = "refresh"
           /\ Owed(TRUE, new_auto, sunrise_sunset, TRUE, calls # <<>> /\ ~ok, calls)
           /\ UNCHANGED <<wall, mono, sunrise_sunset, sunset_deadline, sleep_auto,
                          outcome>>

\* theme_mode_rx.recv() yields a changed key; update_keys reads its value.
ConfigChange(key, v, ok) ==
    /\ pc = "select"
    /\ LET new_auto == IF key = "auto_switch" THEN v ELSE auto_switch
           new_dark == IF key = "is_dark" THEN v ELSE is_dark
           d == is_dark_opt(sunrise_sunset, wall, mono)
           calls == IF ~new_auto /\ auto_switch /\ d.ok THEN <<d.val>> ELSE <<>>
       IN  /\ auto_switch' = new_auto
           /\ cfg_last' = new_auto
           /\ toggled_off' = IF new_auto THEN FALSE
                             ELSE IF auto_switch THEN TRUE ELSE toggled_off
           /\ set_is_dark(calls, ok, new_dark)
           /\ event' = Event("config", calls, "-", FALSE, sunrise_sunset, auto_switch)
           /\ pc' = "refresh"
           /\ Owed(TRUE, new_auto, sunrise_sunset, TRUE, calls # <<>> /\ ~ok, calls)
           /\ UNCHANGED <<wall, mono, sunrise_sunset, sunset_deadline, sleep_auto,
                          outcome>>

\* theme_mode_rx.recv() yields None.
ConfigClosed ==
    /\ pc = "select"
    /\ pc' = "done"
    /\ outcome' = "CommandChannelClosed"
    /\ event' = Event("config", <<>>, "-", FALSE, sunrise_sunset, auto_switch)
    /\ owed' = "none"
    /\ UNCHANGED <<wall, mono, sunrise_sunset, auto_switch, is_dark,
                   sunset_deadline, sleep_auto, cfg_last, toggled_off>>

\* The sleep future wins the race.
TimerFire(ok) ==
    /\ pc = "select"
    /\ SleepReady
    /\ LET d == is_dark_opt(sunrise_sunset, wall, mono)
           calls == IF auto_switch /\ d.ok THEN <<d.val>> ELSE <<>>
       IN  /\ set_is_dark(calls, ok, is_dark)
           /\ event' = Event("timer", calls, "-", FALSE, sunrise_sunset, auto_switch)
           /\ pc' = "refresh"
           /\ Owed(TRUE, auto_switch, sunrise_sunset, FALSE, calls # <<>> /\ ~ok, calls)
           /\ UNCHANGED <<wall, mono, sunrise_sunset, auto_switch, sunset_deadline,
                          sleep_auto, outcome, cfg_last, toggled_off>>

\* location_updates.next() yields a fix that resolves to loc.
LocationUpdate(loc, ok) ==
    /\ pc = "select"
    /\ LET fresh == New(loc, wall, mono)
           w == IF fresh.ok THEN fresh.val ELSE sunrise_sunset
           d == is_dark_opt(w, wall, mono)
           calls == IF d.ok THEN <<d.val>> ELSE <<>>
       IN  /\ sunrise_sunset' = w
           /\ IF w.some
              THEN /\ pc' = "refresh"
                   /\ outcome' = outcome
              ELSE /\ pc' = "done"
                   /\ outcome' = "panic"
           /\ set_is_dark(calls, ok, is_dark)
           /\ event' = Event("location", calls, loc, fresh.ok, sunrise_sunset, auto_switch)
           /\ owed' = "none"
           /\ UNCHANGED <<wall, mono, auto_switch, sunset_deadline, sleep_auto,
                          cfg_last, toggled_off>>

\* The fix cannot be resolved: args(), the proxy or a coordinate read fails.
LocationResolveFail ==
    /\ pc = "select"
    /\ pc' = "done"
    /\ outcome' = "LocationResolveFailed"
    /\ event' = Event("resolve", <<>>, "-", FALSE, sunrise_sunset, auto_switch)
    /\ owed' = "none"
    /\ UNCHANGED <<wall, mono, sunrise_sunset, auto_switch, is_dark,
                   sunset_deadline, sleep_auto, cfg_last, toggled_off>>

\* A closed location stream that also drops the window.
LocationClosedDropsWindow ==
    /\ pc = "select"
    /\ pc' = "done"
    /\ outcome' = "LocationStreamClosed"
    /\ sunrise_sunset' = NoWindow
    /\ event' = Event("closed", <<>>, "-", FALSE, sunrise_sunset, auto_switch)
    /\ owed' = "none"
    /\ UNCHANGED <<wall, mono, auto_switch, is_dark,
                   sunset_deadline, sleep_auto, cfg_last, toggled_off>>

\* location_updates.next() yields None.
LocationClosed ==
    /\ pc = "select"
    /\ pc' = "done"
    /\ outcome' = "LocationStreamClosed"
    /\ event' = Event("closed", <<>>, "-", FALSE, sunrise_sunset, auto_switch)
    /\ owed' = "none"
    /\ UNCHANGED <<wall, mono, sunrise_sunset, auto_switch, is_dark,
                   sunset_deadline, sleep_auto, cfg_last, toggled_off>>

Next ==
    \/ Tick
    \/ Refresh
    \/ \E key \in {"auto_switch", "is_dark"}, v \in BOOLEAN, ok \in BOOLEAN :
          ConfigChange(key, v, ok)
    \/ ConfigClosed
    \/ \E ok \in BOOLEAN : TimerFire(ok)
    \/ \E loc \in Locs, ok \in BOOLEAN : LocationUpdate(loc, ok)
    \/ LocationResolveFail
    \/ LocationClosed

Spec == Init /\ [][Next]_vars

\* ------------------------------------------- the day window on its own
\* SunriseSunset is a public type: its methods are also checked on windows
\* and clock readings drawn freely, with the deadlines in either order.
\* Instants of a drawn window and monotonic readings range over 0..MaxInstant.
MaxInstant == 4

\* Wall-clock times drawn for last_update and for Local::now(): two on day 1,
\* one on day 2, one on the last representable day.
DrawnTimes == {DayLen, DayLen + 3, 2 * DayLen + 5, MaxDay * DayLen + 1}

\* What a call returned, and the window it was made on.
Called(kind, res, prev) == [kind |-> kind, res |-> res, prev |-> prev]

WindowInit ==
    /\ wall \in DrawnTimes
    /\ mono \in 0..MaxInstant
    /\ sunrise_sunset \in
          {[some |-> TRUE, last_update |-> u, sunrise |-> r, sunset |-> t, loc |-> l] :
              u \in DrawnTimes, r \in 0..MaxInstant, t \in 0..MaxInstant, l \in Locs}
    /\ auto_switch = FALSE
    /\ is_dark = FALSE
    /\ sunset_deadline = NoDeadline
    /\ sleep_auto = FALSE
    /\ pc = "window"
    /\ outcome = "running"
    /\ event = Idle
    /\ cfg_last = FALSE
    /\ toggled_off = FALSE
    /\ owed = "none"

\* s.is_dark()
CallIsDark ==
    /\ pc = "window"
    /\ pc' = "called"
    /\ event' = Called("is_dark", is_dark_fn(sunrise_sunset, wall, mono), sunrise_sunset)
    /\ UNCHANGED <<wall, mono, sunrise_sunset, auto_switch, is_dark, sunset_deadline,
                   sleep_auto, outcome, cfg_last, toggled_off, owed>>

\* s.next()
CallNext ==
    /\ pc = "window"
    /\ pc' = "called"
    /\ event' = Called("next", next_fn(sunrise_sunset, mono), sunrise_sunset)
    /\ UNCHANGED <<wall, mono, sunrise_sunset, auto_switch, is_dark, sunset_deadline,
                   sleep_auto, outcome, cfg_last, toggled_off, owed>>

\* s.update_next()
CallUpdateNext ==
    /\ pc = "window"
    /\ pc' = "called"
    /\ LET r == update_next(sunrise_sunset, mono)
       IN  /\ sunrise_sunset' = r.window
           /\ event' = Called("update_next", r.res, sunrise_sunset)
    /\ UNCHANGED <<wall, mono, auto_switch, is_dark, sunset_deadline,
                   sleep_auto, outcome, cfg_last, toggled_off, owed>>

WindowNext ==
    \/ CallIsDark
    \/ CallNext
    \/ CallUpdateNext

WindowSpec == WindowInit /\ [][WindowNext]_vars

\* ------------------------------------------------------------------ claims
\* A handler has just run: the state is the one it left behind.
AfterHandler == pc \in {"refresh", "done"}

\* C1: every apply issued by the deadline-timer branch carries is_dark = TRUE
\* iff the wall clock at that moment is strictly before the current day's
\* sunrise or at/after the current day's sunset at the window's coordinates.
C1_TimerApplyMatchesRealDarkness ==
    (AfterHandler /\ event.kind = "timer" /\ event.applied # <<>>)
        => event.applied[1] = RealDark(sunrise_sunset.loc, wall)

\* C2: while the loop runs undisturbed (auto-switch on, a window, no config
\* change, no location update, no failed apply), apply(false) is issued after every real sunrise
\* before the following sunset, and apply(true) after every real sunset before
\* the following sunrise: no owed switch is ever missed.
C2_SwitchAtEverySunriseAndSunset == owed # "missed"

\* C3: with auto-switch on and a window whose sunset deadline has elapsed, the
\* next iteration replaces the window by one for the following calendar date
\* (when that date exists and the astronomical function is in range for it),
\* schedules the wake-up at the new window's sunrise deadline, and applies
\* nothing.
C3_RolloverSchedulesNextSunrise ==
    (/\ event.kind = "refresh"
     /\ event.prev.some
     /\ auto_switch
     /\ event.prev.sunset < mono
     /\ checked_add_days(event.prev.last_update).ok
     /\ AstroValid(event.prev.loc, event.prev.last_update + DayLen))
        => /\ pc = "select"
           /\ sunrise_sunset.some
           /\ sunrise_sunset.loc = event.prev.loc
           /\ date_naive(sunrise_sunset.last_update)
                 = date_naive(event.prev.last_update) + 1
           /\ sunset_deadline = SomeDeadline(sunrise_sunset.sunrise)
           /\ event.applied = <<>>

\* C4: the loop terminates only because the command channel closed, the
\* location stream closed, the date arithmetic of a rollover overflowed or the
\* clock anchoring failed.
C4_OnlyFatalCausesTerminate ==
    pc = "done" => outcome \in {"CommandChannelClosed", "LocationStreamClosed",
                                "DateOverflow", "ClockAnchorFailure"}

\* C5: when auto-switch is on, a window exists and it is really night at the
\* window's coordinates, a config change that turns auto-switch off makes
\* exactly one apply(true) in that iteration.
C5_ToggleOffAtNightAppliesDark ==
    (/\ pc = "refresh"
     /\ event.kind = "config"
     /\ event.prev_auto
     /\ ~auto_switch
     /\ sunrise_sunset.some
     /\ AstroValid(sunrise_sunset.loc, wall)
     /\ RealDark(sunrise_sunset.loc, wall))
        => event.applied = <<TRUE>>

\* C6: once a config change has turned auto-switch off, neither the timer
\* branch nor the location branch issues an apply until a config change turns
\* it on again.
C6_NoApplyWhileToggledOff ==
    (toggled_off /\ AfterHandler /\ event.kind \in {"timer", "location"})
        => event.applied = <<>>

\* C7: when the window classifies the current time as daylight and a location
\* update resolves to coordinates where it is really night, the window is
\* replaced by one for those coordinates and exactly one apply(true) is made in
\* that iteration.
C7_LocationChangeToNight ==
    (/\ AfterHandler
     /\ event.kind = "location"
     /\ event.prev.some
     /\ is_dark_fn(event.prev, wall, mono) = Ok(FALSE)
     /\ AstroValid(event.loc, wall)
     /\ RealDark(event.loc, wall))
        => /\ pc = "refresh"
           /\ sunrise_sunset.some
           /\ sunrise_sunset.loc = event.loc
           /\ sunrise_sunset.last_update = wall
           /\ event.applied = <<TRUE>>

\* C7 witness: a daylight window for A was replaced by one for B, where it is
\* night, and apply(true) was made.
C7_Witness ==
    /\ pc = "refresh"
    /\ event.kind = "location"
    /\ event.prev.some
    /\ event.prev.loc = "A"
    /\ is_dark_fn(event.prev, wall, mono) = Ok(FALSE)
    /\ event.loc = "B"
    /\ RealDark("B", wall)
    /\ sunrise_sunset.loc = "B"
    /\ event.applied = <<TRUE>>

\* C8: when a location update resolves to coordinates for which construction
\* fails, the window is left as it was (present or absent) and the loop goes
\* on to its next iteration.
C8_ConstructFailureKeepsWindow ==
    (AfterHandler /\ event.kind = "location" /\ ~event.new_ok)
        => (sunrise_sunset = event.prev /\ pc = "refresh")

\* C9: every window the running loop holds has its sunrise (sunset) deadline
\* at the monotonic instant at which the wall clock reads the sunrise (sunset)
\* of the window's reference date: deadline - monotonic now = absolute - wall
\* now.
C9_DeadlinesAnchoredToReferenceDate ==
    (sunrise_sunset.some /\ pc # "done") =>
        LET ss == sunrise_sunset_fn(sunrise_sunset.loc,
                                    date_naive(sunrise_sunset.last_update))
        IN  /\ sunrise_sunset.sunrise - mono = ss[1] - wall
            /\ sunrise_sunset.sunset - mono = ss[2] - wall

\* C10: the timer branch wins the race only in an iteration where auto_switch
\* is on and a deadline is known, the value of auto_switch it acts on is the
\* one the latest config change left, and it never applies while auto_switch
\* is off.
C10_TimerOnlyWhenEnabled ==
    (AfterHandler /\ event.kind = "timer")
        => /\ sleep_auto
           /\ sunset_deadline.some
           /\ mono >= sunset_deadline.at
           /\ auto_switch = cfg_last
           /\ sleep_auto = cfg_last
           /\ auto_switch

\* C10 witness: some time after the loop started, the timer fired with
\* auto-switch on and made an apply.
C10_Witness ==
    /\ pc = "refresh"
    /\ event.kind = "timer"
    /\ event.applied # <<>>
    /\ cfg_last
    /\ wall > StartWall

\* C11: while no window exists no branch applies: the refresh step leaves
\* no deadline, the timer does not fire, a config change (also one that turns
\* auto-switch off) applies nothing and leaves the window absent; only a
\* location update that constructs the first window applies.
C11_NoApplyWithoutWindow ==
    /\ (pc = "select" /\ ~sunrise_sunset.some) => (~sunset_deadline.some /\ ~SleepReady)
    /\ (event.kind # "idle" /\ ~event.prev.some) =>
          /\ event.kind # "timer"
          /\ (event.kind = "refresh") =>
                (pc = "select" /\ ~sunrise_sunset.some /\ sunset_deadline = NoDeadline)
          /\ (event.kind \in {"config", "resolve", "closed"}) =>
                (event.applied = <<>> /\ ~sunrise_sunset.some)
          /\ (event.kind = "location" /\ ~event.new_ok) => event.applied = <<>>

\* C11 witness: with no window, a config change turned auto-switch off and
\* applied nothing.
C11_Witness ==
    /\ pc = "refresh"
    /\ event.kind = "config"
    /\ event.prev_auto
    /\ ~auto_switch
    /\ ~event.prev.some
    /\ ~sunrise_sunset.some
    /\ event.applied = <<>>

\* C12: when the race sees the command channel closed or the location stream
\* exhausted, the loop terminates with that error in the same iteration,
\* applies nothing and leaves the window as it was.
C12_ClosedStreamsTerminateCleanly ==
    (outcome \in {"CommandChannelClosed", "LocationStreamClosed"} \/ event.kind = "closed")
        => /\ pc = "done"
           /\ outcome \in {"CommandChannelClosed", "LocationStreamClosed"}
           /\ event.kind = (IF outcome = "CommandChannelClosed" THEN "config" ELSE "closed")
           /\ event.applied = <<>>
           /\ sunrise_sunset = event.prev

\* C12 witness: the location stream ended while the loop held a window.
C12_Witness ==
    /\ pc = "done"
    /\ outcome = "LocationStreamClosed"
    /\ event.prev.some
    /\ sunrise_sunset = event.prev

\* C13: is_dark on a window whose reference date differs from the current
\* local date fails with the stale-window error, gives no classification and
\* leaves the window unchanged.
C13_StaleWindowIsAnError ==
    (/\ event.kind = "is_dark"
     /\ date_naive(event.prev.last_update) # date_naive(wall))
        => /\ ~event.res.ok
           /\ event.res.err = "StaleWindow"
           /\ sunrise_sunset = event.prev

\* C13 witness: is_dark was called on a window of day 1 on a later day, at an
\* instant between its sunrise and its sunset.
C13_Witness ==
    /\ event.kind = "is_dark"
    /\ date_naive(event.prev.last_update) = 1
    /\ date_naive(wall) > 1
    /\ event.prev.sunrise <= mono
    /\ mono < event.prev.sunset
    /\ ~event.res.ok

\* C14: is_dark on a window that is not stale returns TRUE iff now is before
\* the sunrise deadline or at/after the sunset deadline: TRUE at the sunset
\* deadline itself, FALSE at the sunrise deadline itself (when it precedes the
\* sunset deadline).
C14_DarknessBoundary ==
    (/\ event.kind = "is_dark"
     /\ date_naive(event.prev.last_update) = date_naive(wall))
        => /\ event.res.ok
           /\ event.res.val = (mono < event.prev.sunrise \/ mono >= event.prev.sunset)
           /\ (mono = event.prev.sunset) => event.res.val
           /\ (mono = event.prev.sunrise /\ event.prev.sunrise < event.prev.sunset)
                 => ~event.res.val

\* C14 witness: is_dark was called exactly at the sunset deadline of a fresh
\* window whose sunrise deadline had passed, and answered TRUE.
C14_Witness ==
    /\ event.kind = "is_dark"
    /\ date_naive(event.prev.last_update) = date_naive(wall)
    /\ event.prev.sunrise < event.prev.sunset
    /\ mono = event.prev.sunset
    /\ event.res = Ok(TRUE)

\* The deadlines of window s that have not elapsed at monotonic time now.
NotElapsed(s, now) == {d \in {s.sunrise, s.sunset} : d >= now}

\* The least element of a non-empty set of instants.
Nearest(S) == CHOOSE d \in S : \A e \in S : d <= e

\* C15: next returns the nearer of the deadlines that have not elapsed,
\* whatever their order, and fails iff both have elapsed.
C15_NextIsNearestLiveDeadline ==
    (event.kind = "next") =>
        /\ event.res.ok = (NotElapsed(event.prev, mono) # {})
        /\ (NotElapsed(event.prev, mono) # {}) =>
               (event.res.val = Nearest(NotElapsed(event.prev, mono)))

\* C16: when the fix of a location update cannot be resolved, the loop keeps
\* its window and goes on to the next iteration.
C16_ResolveFailureKeepsLoopRunning ==
    (event.kind = "resolve") => (pc = "refresh" /\ sunrise_sunset = event.prev)

\* C17: an out-of-range answer of the astronomical function is recoverable
\* wherever the window is constructed: in the location branch (with a prior
\* window) and in the rollover at the top of an iteration the prior window is
\* kept and the loop continues.
C17_AstroOverflowIsRecoverable ==
    /\ (AfterHandler /\ event.kind = "location" /\ ~event.new_ok /\ event.prev.some)
          => (pc = "refresh" /\ sunrise_sunset = event.prev)
    /\ (/\ event.kind = "refresh"
        /\ event.prev.some
        /\ ~next_fn(event.prev, mono).ok
        /\ checked_add_days(event.prev.last_update).ok
        /\ ~AstroValid(event.prev.loc, event.prev.last_update + DayLen))
          => (pc = "select" /\ sunrise_sunset = event.prev)

\* C18: a config change applies only when it turns auto-switch from on to
\* off, and no config change modifies the window.
C18_ConfigChangeFrame ==
    (pc = "refresh" /\ event.kind = "config")
        => /\ sunrise_sunset = event.prev
           /\ (event.applied # <<>>) => (event.prev_auto /\ ~auto_switch)

\* C18 witness: a config change that left auto-switch off, while a fresh
\* window existed, applied nothing.
C18_Witness ==
    /\ pc = "refresh"
    /\ event.kind = "config"
    /\ ~event.prev_auto
    /\ ~auto_switch
    /\ sunrise_sunset.some
    /\ is_dark_fn(sunrise_sunset, wall, mono).ok
    /\ event.applied = <<>>

\* C19: update_next with a deadline not yet elapsed returns such a deadline
\* and leaves the window unchanged; with both elapsed and a successful
\* construction the new window has the same coordinates and a reference date
\* one day later; when the date arithmetic or the construction fails the
\* window is unchanged.
C19_UpdateNextFrame ==
    (event.kind = "update_next") =>
        LET old == event.prev
            live == NotElapsed(old, mono)
            tomorrow == checked_add_days(old.last_update)
            built == tomorrow.ok /\ AstroValid(old.loc, old.last_update + DayLen)
        IN  /\ (live # {}) =>
                  (event.res.ok /\ event.res.val \in live /\ sunrise_sunset = old)
            /\ (live = {} /\ built) =>
                  /\ sunrise_sunset.some
                  /\ sunrise_sunset.loc = old.loc
                  /\ date_naive(sunrise_sunset.last_update)
                        = date_naive(old.last_update) + 1
            /\ (live = {} /\ ~built) => (~event.res.ok /\ sunrise_sunset = old)

\* C19 witness: both deadlines had elapsed and update_next replaced the
\* window by one for the next day at the same coordinates.
C19_Witness ==
    /\ event.kind = "update_next"
    /\ NotElapsed(event.prev, mono) = {}
    /\ sunrise_sunset # event.prev
    /\ sunrise_sunset.loc = event.prev.loc
    /\ date_naive(sunrise_sunset.last_update) = date_naive(event.prev.last_update) + 1

\* C20: while the loop waits on the race, the reference date of its window is
\* the current local date or the next one; in particular repeated rollovers
\* never move it more than one day ahead of the real date.
C20_ReferenceDateAtMostOneDayAhead ==
    (pc = "select" /\ sunrise_sunset.some) =>
        date_naive(sunrise_sunset.last_update) <= date_naive(wall) + 1

====
